---- MODULE Spec2Model ----
(***************************************************************************)
(* The PDF processing pipeline of src/workers/pdf-processor.worker.ts and  *)
(* the queue variant of saveDocument in src/actions/document.ts.           *)
(*                                                                         *)
(* A document is saved and a job is added to the BullMQ queue              *)
(* 'pdfProcessing'; a Worker (concurrency 2) runs the processor on each    *)
(* job: fetch, temp file, extraction, page fan-out through pLimit(2),      *)
(* aggregate JSON, cleanup, completion, with a catch that records the      *)
(* error and rethrows to the queue (attempts 3, exponential backoff).      *)
(***************************************************************************)
EXTENDS Integers, Sequences, FiniteSets, TLC

\* ---------------------------------------------------------------- bounds
NumDocs == 3
NumWorkers == 2
MaxPages == 3
PoolPages == 2
LeasePages == 1
MaxStalls == 1

\* ------------------------------------------------------ program constants
Attempts == 3
BackoffDelay == 5000
Width == 2
Concurrency == 2
MaxStalledCount == 1
PageCap == 95
ExtractShare == 15
PageShare == 80

Docs == 1..NumDocs
Workers == 1..NumWorkers
Pages == 1..MaxPages
Execs == Workers \X Docs
NoPdf == 0 - 1
NoFile == [pageCount |-> -1, images |-> <<>>]

VARIABLES
  pdfPages,            \* pages of the PDF behind each document's fileUrl (NoPdf: never uploaded)
  running,             \* the worker processes that were started
  documents,           \* ids of the rows of the documents table
  saveResult,          \* what saveDocument returned for each upload
  processingProgress,  \* documents.processingProgress
  processingComplete,  \* documents.processingComplete
  processingError,     \* documents.processingError
  jobState,            \* BullMQ state of each document's job
  attemptsMade,        \* BullMQ job.attemptsMade
  delay,               \* the last backoff delay the queue gave the job (ms)
  stalls,              \* how often the job's lock expired
  lease,               \* lease[w, d]: worker w holds an unexpired lock on d's job
  pc,                  \* position of worker w's processor run on d's job
  response,            \* response.ok of the run's fetch
  err,                 \* the error the run's catch block caught
  pageCount,           \* docs.length of the run
  task,                \* state of each page task of the run
  effects,             \* the writes the run has made so far
  lastProgress,        \* the last processingProgress value the run wrote
  blobs,               \* Firebase objects documents/<d>/page_<p>.png
  jsonFile,            \* data/<d>_firebase_images.json
  tempFiles            \* files under temp/

vars == <<pdfPages, running, documents, saveResult, processingProgress,
          processingComplete, processingError, jobState, attemptsMade, delay,
          stalls, lease, pc, response, err, pageCount, task, effects,
          lastProgress, blobs, jsonFile, tempFiles>>

envVars == <<pdfPages, running>>
dbVars == <<processingProgress, processingComplete, processingError>>
saveVars == <<documents, saveResult>>
queueVars == <<jobState, attemptsMade, delay, stalls, lease>>
storeVars == <<blobs, jsonFile, tempFiles>>
runVars == <<response, err, pageCount, task, effects, lastProgress>>

\* ------------------------------------------------------------- helpers
Ended == {"idle", "done", "failed"}

\* path.join(tempDir, `${documentId}.pdf`)
tempFilePath(d) == <<d, 0>>

\* path.join(tempDir, `${documentId}_page_${pageNumber}.pdf`)
singlePagePdfPath(d, p) == <<d, p>>

\* variant: the object name carries the number of the delivery
storageRefPerDelivery(d, p) == <<d, p + MaxPages * (attemptsMade[d] + stalls[d])>>

\* ref(storage, `documents/${documentId}/page_${pageNumber}.png`)
storageRef(d, p) == <<d, p>>

Settled == {"fulfilled", "rejected"}
InFlightStates == {"started", "filed", "rendered", "uploaded"}

InFlight(e) == {p \in Pages : task[e][p] \in InFlightStates}

\* Math.round(Math.min(95, 15 + (80 / pageCount) * pageNumber)), round half up
Min(a, b) == IF a <= b THEN a ELSE b

\* variant: the pages share everything above the extraction share, up to 100
PageProgressTo100(n, p) ==
  LET twice == 2 * (ExtractShare * n + (100 - ExtractShare) * p) + n
      rounded == twice \div (2 * n)
  IN  Min(100, rounded)

PageProgress(n, p) ==
  LET twice == 2 * (ExtractShare * n + PageShare * p) + n
      rounded == twice \div (2 * n)
  IN  Min(PageCap, rounded)

RECURSIVE Pow2(_)
Pow2(k) == IF k <= 0 THEN 1 ELSE 2 * Pow2(k - 1)

\* variant: backoff type 'fixed'
FixedBackoff(made) == IF made > 0 THEN BackoffDelay ELSE 0

\* BullMQ exponential backoff: Math.round(2^(attemptsMade - 1) * delay)
Backoff(made) == Pow2(made - 1) * BackoffDelay

Malformed == 0 - 2

\* ------------------------------------------------------------ initial state
NoTasks == [p \in Pages |-> "none"]

InitCommon ==
  /\ documents = {}
  /\ saveResult = [d \in Docs |-> "none"]
  /\ processingProgress = [d \in Docs |-> 0]
  /\ processingComplete = [d \in Docs |-> FALSE]
  /\ processingError = [d \in Docs |-> "null"]
  /\ jobState = [d \in Docs |-> "none"]
  /\ attemptsMade = [d \in Docs |-> 0]
  /\ delay = [d \in Docs |-> 0]
  /\ stalls = [d \in Docs |-> 0]
  /\ lease = [e \in Execs |-> FALSE]
  /\ pc = [e \in Execs |-> "idle"]
  /\ response = [e \in Execs |-> "none"]
  /\ err = [e \in Execs |-> "none"]
  /\ pageCount = [e \in Execs |-> 0]
  /\ task = [e \in Execs |-> NoTasks]
  /\ effects = [e \in Execs |-> {}]
  /\ lastProgress = [e \in Execs |-> 0]
  /\ blobs = {}
  /\ jsonFile = [d \in Docs |-> NoFile]
  /\ tempFiles = {}

\* one worker process, one uploaded PDF of any page count (or a malformed one)
Init ==
  /\ InitCommon
  /\ running = {1}
  /\ \E n \in (0..MaxPages) \cup {Malformed} :
       pdfPages = [d \in Docs |-> IF d = 1 THEN n ELSE NoPdf]

\* ------------------------------------------------- saveDocument (queue variant)
\* variant: the queue add is not awaited, its failure is not seen
SaveDocumentFireAndForget(d, userFound, queueOk) ==
  /\ pdfPages[d] # NoPdf
  /\ saveResult[d] = "none"
  /\ IF ~userFound
       THEN /\ saveResult' = [saveResult EXCEPT ![d] = "user_not_found"]
            /\ UNCHANGED <<documents, jobState>>
       ELSE /\ documents' = documents \cup {d}
            /\ saveResult' = [saveResult EXCEPT ![d] = "ok"]
            /\ IF queueOk
                 THEN jobState' = [jobState EXCEPT ![d] = "wait"]
                 ELSE UNCHANGED jobState
  /\ UNCHANGED <<envVars, dbVars, attemptsMade, delay, stalls, lease, pc,
                 runVars, storeVars>>

\* variant: the row is inserted before the user lookup is looked at
SaveDocumentInsertFirst(d, userFound, queueOk) ==
  /\ pdfPages[d] # NoPdf
  /\ saveResult[d] = "none"
  /\ documents' = documents \cup {d}
  /\ IF ~userFound
       THEN /\ saveResult' = [saveResult EXCEPT ![d] = "user_not_found"]
            /\ UNCHANGED jobState
       ELSE IF queueOk
              THEN /\ jobState' = [jobState EXCEPT ![d] = "wait"]
                   /\ saveResult' = [saveResult EXCEPT ![d] = "ok"]
              ELSE /\ saveResult' = [saveResult EXCEPT ![d] = "failed"]
                   /\ UNCHANGED jobState
  /\ UNCHANGED <<envVars, dbVars, attemptsMade, delay, stalls, lease, pc,
                 runVars, storeVars>>

SaveDocument(d, userFound, queueOk) ==
  /\ pdfPages[d] # NoPdf
  /\ saveResult[d] = "none"
  /\ IF ~userFound
       THEN /\ saveResult' = [saveResult EXCEPT ![d] = "user_not_found"]
            /\ UNCHANGED <<documents, jobState>>
       ELSE /\ documents' = documents \cup {d}
            /\ IF queueOk
                 THEN /\ jobState' = [jobState EXCEPT ![d] = "wait"]
                      /\ saveResult' = [saveResult EXCEPT ![d] = "ok"]
                 ELSE /\ saveResult' = [saveResult EXCEPT ![d] = "failed"]
                      /\ UNCHANGED jobState
  /\ UNCHANGED <<envVars, dbVars, attemptsMade, delay, stalls, lease, pc,
                 runVars, storeVars>>

\* ------------------------------------------------------- the queue (BullMQ)
\* variant: the move to active is not atomic and an active job is taken again
ClaimableWhileActive(d) == jobState[d] \in {"wait", "active"}

\* a job can be moved to active only from the wait list
Claimable(d) == jobState[d] = "wait"

Active(w) == {d \in Docs : pc[<<w, d>>] \notin Ended}

\* variant: no concurrency option
WorkerUnbounded(w) == w \in Workers

\* Worker option concurrency: 2
WorkerHasCapacity(w) == Cardinality(Active(w)) < Concurrency

\* the worker takes the next waiting job and calls the processor on it
Claim(w, d) ==
  LET e == <<w, d>> IN
  /\ w \in running
  /\ Claimable(d)
  /\ WorkerHasCapacity(w)
  /\ pc[e] \in Ended
  /\ jobState' = [jobState EXCEPT ![d] = "active"]
  /\ lease' = [lease EXCEPT ![e] = TRUE]
  /\ pc' = [pc EXCEPT ![e] = "fetch"]
  /\ response' = [response EXCEPT ![e] = "none"]
  /\ err' = [err EXCEPT ![e] = "none"]
  /\ pageCount' = [pageCount EXCEPT ![e] = 0]
  /\ task' = [task EXCEPT ![e] = NoTasks]
  /\ effects' = [effects EXCEPT ![e] = {}]
  /\ lastProgress' = [lastProgress EXCEPT ![e] = 0]
  /\ UNCHANGED <<envVars, dbVars, saveVars, attemptsMade, delay, stalls, storeVars>>

\* the backoff timer of a delayed job elapses
Promote(d) ==
  /\ jobState[d] = "delayed"
  /\ jobState' = [jobState EXCEPT ![d] = "wait"]
  /\ UNCHANGED <<envVars, dbVars, saveVars, attemptsMade, delay, stalls, lease,
                 pc, runVars, storeVars>>

\* the lock of an active job is not renewed in time: the job goes back to wait
LockExpired(d) ==
  /\ jobState[d] = "active"
  /\ stalls[d] < MaxStalls
  /\ stalls' = [stalls EXCEPT ![d] = @ + 1]
  /\ lease' = [e \in Execs |-> IF e[2] = d THEN FALSE ELSE lease[e]]
  /\ jobState' = [jobState EXCEPT ![d] = "wait"]
  /\ UNCHANGED <<envVars, dbVars, saveVars, attemptsMade, delay, pc, runVars,
                 storeVars>>

\* the worker process stops in the middle of a run and is started again: its
\* runs are gone, their locks stay in the queue until they expire
Restart(w) ==
  /\ w \in running
  /\ \E d \in Docs : pc[<<w, d>>] \notin Ended
  /\ pc' = [e \in Execs |-> IF e[1] = w THEN "idle" ELSE pc[e]]
  /\ UNCHANGED <<envVars, dbVars, saveVars, queueVars, runVars, storeVars>>

\* the stalled-jobs check of a running worker finds an active job whose lock
\* nobody renews: back to wait, or to the failed set once the job has stalled
\* more than maxStalledCount times (no processor runs, nothing writes the record)
StalledCheck(d) ==
  /\ running # {}
  /\ jobState[d] = "active"
  /\ \A w \in Workers : lease[<<w, d>>] => pc[<<w, d>>] \in Ended
  /\ stalls' = [stalls EXCEPT ![d] = @ + 1]
  /\ lease' = [e \in Execs |-> IF e[2] = d THEN FALSE ELSE lease[e]]
  /\ jobState' = [jobState EXCEPT ![d] =
       IF stalls[d] + 1 > MaxStalledCount THEN "failed" ELSE "wait"]
  /\ UNCHANGED <<envVars, dbVars, saveVars, attemptsMade, delay, pc, runVars,
                 storeVars>>

\* defaultJobOptions attempts: 3
RetryAllowed(made) == made < Attempts

\* the processor threw: retry with backoff while attempts remain, else the failed set
MoveToFailed(e) ==
  LET d == e[2]
      made == attemptsMade[d] + 1
  IN  IF lease[e]
        THEN /\ attemptsMade' = [attemptsMade EXCEPT ![d] = made]
             /\ lease' = [lease EXCEPT ![e] = FALSE]
             /\ IF RetryAllowed(made)
                  THEN /\ jobState' = [jobState EXCEPT ![d] = "delayed"]
                       /\ delay' = [delay EXCEPT ![d] = Backoff(made)]
                  ELSE /\ jobState' = [jobState EXCEPT ![d] = "failed"]
                       /\ UNCHANGED delay
        ELSE UNCHANGED <<attemptsMade, lease, jobState, delay>>

\* the processor returned: the job is completed (and removed)
MoveToCompleted(e) ==
  LET d == e[2] IN
  IF lease[e]
    THEN /\ jobState' = [jobState EXCEPT ![d] = "completed"]
         /\ lease' = [lease EXCEPT ![e] = FALSE]
    ELSE UNCHANGED <<jobState, lease>>

\* ------------------------------------------------------------ the processor
Throw(e, message) ==
  /\ pc' = [pc EXCEPT ![e] = "catch"]
  /\ err' = [err EXCEPT ![e] = message]

\* variant: response.ok is not looked at
FetchUnchecked(e, ok) ==
  /\ pc[e] = "fetch"
  /\ response' = [response EXCEPT ![e] = IF ok THEN "ok" ELSE "notok"]
  /\ pc' = [pc EXCEPT ![e] = "tempfile"]
  /\ UNCHANGED <<envVars, dbVars, saveVars, queueVars, storeVars, err, pageCount,
                 task, effects, lastProgress>>

\* const response = await fetch(fileUrl); if (!response.ok) throw
Fetch(e, ok) ==
  /\ pc[e] = "fetch"
  /\ response' = [response EXCEPT ![e] = IF ok THEN "ok" ELSE "notok"]
  /\ IF ok
       THEN /\ pc' = [pc EXCEPT ![e] = "tempfile"]
            /\ UNCHANGED err
       ELSE Throw(e, "fetch")
  /\ UNCHANGED <<envVars, dbVars, saveVars, queueVars, storeVars, pageCount,
                 task, effects, lastProgress>>

\* mkdir temp and data, fs.writeFile(tempFilePath, pdfBuffer)
WriteTempFile(e, ok) ==
  /\ pc[e] = "tempfile"
  /\ IF ok
       THEN /\ tempFiles' = tempFiles \cup {tempFilePath(e[2])}
            /\ pc' = [pc EXCEPT ![e] = "progress10"]
            /\ UNCHANGED err
       ELSE /\ Throw(e, "fs")
            /\ UNCHANGED tempFiles
  /\ UNCHANGED <<envVars, dbVars, saveVars, queueVars, blobs, jsonFile, response,
                 pageCount, task, effects, lastProgress>>

\* await job.updateProgress(10)
Progress10(e, ok) ==
  /\ pc[e] = "progress10"
  /\ IF ok
       THEN /\ pc' = [pc EXCEPT ![e] = "extract"]
            /\ UNCHANGED err
       ELSE Throw(e, "queue")
  /\ UNCHANGED <<envVars, dbVars, saveVars, queueVars, storeVars, response,
                 pageCount, task, effects, lastProgress>>

\* const docs = await loader.load(); const pageCount = docs.length
Extract(e, ok) ==
  LET d == e[2] IN
  /\ pc[e] = "extract"
  /\ IF ok /\ tempFilePath(d) \in tempFiles /\ pdfPages[d] # Malformed
       THEN /\ pageCount' = [pageCount EXCEPT ![e] = pdfPages[d]]
            /\ pc' = [pc EXCEPT ![e] = "progress15"]
            /\ UNCHANGED err
       ELSE /\ Throw(e, "extract")
            /\ UNCHANGED pageCount
  /\ UNCHANGED <<envVars, dbVars, saveVars, queueVars, storeVars, response,
                 task, effects, lastProgress>>

\* variant: pageNumbers has one entry more than the document has pages
Progress15OffByOne(e, ok) ==
  /\ pc[e] = "progress15"
  /\ IF ok
       THEN /\ pc' = [pc EXCEPT ![e] = "pages"]
            /\ task' = [task EXCEPT ![e] =
                 [p \in Pages |-> IF p <= pageCount[e] + 1 THEN "queued" ELSE "none"]]
            /\ UNCHANGED err
       ELSE /\ Throw(e, "queue")
            /\ UNCHANGED task
  /\ UNCHANGED <<envVars, dbVars, saveVars, queueVars, storeVars, response,
                 pageCount, effects, lastProgress>>

\* await job.updateProgress(15), then pageNumbers.map(p => limit(() => processPage(p)))
Progress15(e, ok) ==
  /\ pc[e] = "progress15"
  /\ IF ok
       THEN /\ pc' = [pc EXCEPT ![e] = "pages"]
            /\ task' = [task EXCEPT ![e] =
                 [p \in Pages |-> IF p <= pageCount[e] THEN "queued" ELSE "none"]]
            /\ UNCHANGED err
       ELSE /\ Throw(e, "queue")
            /\ UNCHANGED task
  /\ UNCHANGED <<envVars, dbVars, saveVars, queueVars, storeVars, response,
                 pageCount, effects, lastProgress>>

\* ------------------------------------------------- page tasks (processPage)
\* variant: no limiter
SlotAlwaysFree(e) == e \in Execs

\* variant: a task that rejected keeps its slot
SlotKeptByRejected(e) ==
  Cardinality({p \in Pages : task[e][p] \in InFlightStates \cup {"rejected"}}) < Width

\* pLimit(2): a queued task starts when fewer than 2 tasks are running
SlotFree(e) == Cardinality(InFlight(e)) < Width

Queued(e) == {p \in Pages : task[e][p] = "queued"}

SetTask(e, p, st) == task' = [task EXCEPT ![e][p] = st]

\* limit(() => processPage(pageNumber)): tasks leave the limiter's queue in order
StartPage(e, p) ==
  /\ pc[e] = "pages"
  /\ task[e][p] = "queued"
  /\ \A q \in Queued(e) : p <= q
  /\ SlotFree(e)
  /\ SetTask(e, p, "started")
  /\ UNCHANGED <<envVars, dbVars, saveVars, queueVars, storeVars, pc, response,
                 err, pageCount, effects, lastProgress>>

\* PDFDocument.load, copyPages, save, fs.writeFile(singlePagePdfPath)
SplitPage(e, p, ok) ==
  /\ pc[e] = "pages"
  /\ task[e][p] = "started"
  /\ IF ok
       THEN /\ tempFiles' = tempFiles \cup {singlePagePdfPath(e[2], p)}
            /\ SetTask(e, p, "filed")
       ELSE /\ SetTask(e, p, "rejected")
            /\ UNCHANGED tempFiles
  /\ UNCHANGED <<envVars, dbVars, saveVars, queueVars, blobs, jsonFile, pc,
                 response, err, pageCount, effects, lastProgress>>

\* sharp(singlePagePdfPath, { density: 300 }).toFormat('png').toBuffer()
RenderPage(e, p, ok) ==
  /\ pc[e] = "pages"
  /\ task[e][p] = "filed"
  /\ IF ok /\ singlePagePdfPath(e[2], p) \in tempFiles
       THEN SetTask(e, p, "rendered")
       ELSE SetTask(e, p, "rejected")
  /\ UNCHANGED <<envVars, dbVars, saveVars, queueVars, storeVars, pc, response,
                 err, pageCount, effects, lastProgress>>

\* uploadBytes(storageRef, pngBuffer); getDownloadURL(storageRef): one try, no retry
UploadPage(e, p, ok) ==
  /\ pc[e] = "pages"
  /\ task[e][p] = "rendered"
  /\ IF ok
       THEN /\ blobs' = blobs \cup {storageRef(e[2], p)}
            /\ SetTask(e, p, "uploaded")
       ELSE /\ SetTask(e, p, "rejected")
            /\ UNCHANGED blobs
  /\ UNCHANGED <<envVars, dbVars, saveVars, queueVars, jsonFile, tempFiles, pc,
                 response, err, pageCount, effects, lastProgress>>

\* fs.unlink(singlePagePdfPath), then the progress write, then return
FinishPage(e, p) ==
  LET d == e[2]
      progress == PageProgress(pageCount[e], p)
  IN
  /\ pc[e] = "pages"
  /\ task[e][p] = "uploaded"
  /\ IF singlePagePdfPath(d, p) \in tempFiles
       THEN /\ tempFiles' = tempFiles \ {singlePagePdfPath(d, p)}
            /\ processingProgress' = [processingProgress EXCEPT ![d] = progress]
            /\ lastProgress' = [lastProgress EXCEPT ![e] = progress]
            /\ SetTask(e, p, "fulfilled")
       ELSE /\ SetTask(e, p, "rejected")
            /\ UNCHANGED <<tempFiles, processingProgress, lastProgress>>
  /\ UNCHANGED <<envVars, saveVars, queueVars, blobs, jsonFile, pc, response,
                 err, pageCount, effects, processingComplete, processingError>>

\* ------------------------------------------------ join, aggregate, completion
\* variant: Promise.all, which settles at the first rejection
FanOutDoneAtFirstRejection(e) ==
  \/ \A p \in 1..pageCount[e] : task[e][p] = "fulfilled"
  \/ \E p \in 1..pageCount[e] : task[e][p] = "rejected"

\* await Promise.allSettled(...): every page task has settled
FanOutDone(e) == \A p \in 1..pageCount[e] : task[e][p] \in Settled

\* results.filter(fulfilled).map(value), in the order of pageNumbers
RECURSIVE Fulfilled(_, _)
Fulfilled(e, n) ==
  IF n = 0 THEN <<>>
  ELSE IF task[e][n] = "fulfilled" THEN Append(Fulfilled(e, n - 1), n)
       ELSE Fulfilled(e, n - 1)

\* variant: the rejected results are kept too
unfilteredResults(e) == [i \in 1..pageCount[e] |-> i]

successfulResults(e) == Fulfilled(e, pageCount[e])

\* Array.prototype.sort((a, b) => a.pageNumber - b.pageNumber)
RECURSIVE Insert(_, _)
Insert(x, s) ==
  IF s = <<>> THEN <<x>>
  ELSE IF x < Head(s) THEN <<x>> \o s
       ELSE <<Head(s)>> \o Insert(x, Tail(s))

\* variant: the comparator is b.pageNumber - a.pageNumber
RECURSIVE SortDescending(_)
SortDescending(s) ==
  IF s = <<>> THEN <<>> ELSE Append(SortDescending(Tail(s)), Head(s))

RECURSIVE SortByPageNumber(_)
SortByPageNumber(s) ==
  IF s = <<>> THEN <<>> ELSE Insert(Head(s), SortByPageNumber(Tail(s)))

\* await job.updateProgress(95), once allSettled has resolved
Progress95(e, ok) ==
  /\ pc[e] = "pages"
  /\ FanOutDone(e)
  /\ IF ok
       THEN /\ pc' = [pc EXCEPT ![e] = "aggregate"]
            /\ UNCHANGED err
       ELSE Throw(e, "queue")
  /\ UNCHANGED <<envVars, dbVars, saveVars, queueVars, storeVars, response,
                 pageCount, task, effects, lastProgress>>

\* variant: the completion update does not wait for the aggregate write
WriteAggregateNotAwaited(e, ok) ==
  /\ pc[e] = "aggregate"
  /\ ok \in BOOLEAN
  /\ pc' = [pc EXCEPT ![e] = "cleanup"]
  /\ UNCHANGED <<envVars, dbVars, saveVars, queueVars, storeVars, response, err,
                 pageCount, task, effects, lastProgress>>

\* variant: the pageCount field counts the entries of images
WriteAggregateCountingImages(e, ok) ==
  /\ pc[e] = "aggregate"
  /\ IF ok
       THEN /\ jsonFile' = [jsonFile EXCEPT ![e[2]] =
                 [pageCount |-> Len(successfulResults(e)),
                  images |-> SortByPageNumber(successfulResults(e))]]
            /\ effects' = [effects EXCEPT ![e] = @ \cup {"aggregate"}]
            /\ pc' = [pc EXCEPT ![e] = "cleanup"]
            /\ UNCHANGED err
       ELSE /\ Throw(e, "store")
            /\ UNCHANGED <<jsonFile, effects>>
  /\ UNCHANGED <<envVars, dbVars, saveVars, queueVars, blobs, tempFiles,
                 response, pageCount, task, lastProgress>>

\* fs.writeFile(jsonFilePath, JSON.stringify({documentId, pageCount, images}))
WriteAggregate(e, ok) ==
  /\ pc[e] = "aggregate"
  /\ IF ok
       THEN /\ jsonFile' = [jsonFile EXCEPT ![e[2]] =
                 [pageCount |-> pageCount[e],
                  images |-> SortByPageNumber(successfulResults(e))]]
            /\ effects' = [effects EXCEPT ![e] = @ \cup {"aggregate"}]
            /\ pc' = [pc EXCEPT ![e] = "cleanup"]
            /\ UNCHANGED err
       ELSE /\ Throw(e, "store")
            /\ UNCHANGED <<jsonFile, effects>>
  /\ UNCHANGED <<envVars, dbVars, saveVars, queueVars, blobs, tempFiles,
                 response, pageCount, task, lastProgress>>

\* await fs.unlink(tempFilePath)
Cleanup(e) ==
  /\ pc[e] = "cleanup"
  /\ IF tempFilePath(e[2]) \in tempFiles
       THEN /\ tempFiles' = tempFiles \ {tempFilePath(e[2])}
            /\ pc' = [pc EXCEPT ![e] = "complete"]
            /\ UNCHANGED err
       ELSE /\ Throw(e, "unlink")
            /\ UNCHANGED tempFiles
  /\ UNCHANGED <<envVars, dbVars, saveVars, queueVars, blobs, jsonFile, response,
                 pageCount, task, effects, lastProgress>>

\* db.update(documents).set({processingProgress: 100, processingComplete: true})
MarkComplete(e) ==
  /\ pc[e] = "complete"
  /\ processingProgress' = [processingProgress EXCEPT ![e[2]] = 100]
  /\ processingComplete' = [processingComplete EXCEPT ![e[2]] = TRUE]
  /\ lastProgress' = [lastProgress EXCEPT ![e] = 100]
  /\ effects' = [effects EXCEPT ![e] = @ \cup {"complete"}]
  /\ pc' = [pc EXCEPT ![e] = "progress100"]
  /\ UNCHANGED <<envVars, saveVars, queueVars, storeVars, processingError,
                 response, err, pageCount, task>>

\* await job.updateProgress(100); return { success: true, ... }
Progress100(e, ok) ==
  /\ pc[e] = "progress100"
  /\ IF ok
       THEN /\ pc' = [pc EXCEPT ![e] = "done"]
            /\ MoveToCompleted(e)
            /\ effects' = [effects EXCEPT ![e] =
                 IF lease[e] THEN @ \cup {"ack"} ELSE @]
            /\ UNCHANGED <<err, attemptsMade, delay>>
       ELSE /\ Throw(e, "queue")
            /\ UNCHANGED <<jobState, lease, attemptsMade, delay, effects>>
  /\ UNCHANGED <<envVars, dbVars, saveVars, stalls, storeVars, response,
                 pageCount, task, lastProgress>>

\* variant: the catch block records the error and does not rethrow it
CatchWithoutRethrow(e) ==
  /\ pc[e] = "catch"
  /\ processingError' = [processingError EXCEPT ![e[2]] = err[e]]
  /\ pc' = [pc EXCEPT ![e] = "done"]
  /\ MoveToCompleted(e)
  /\ effects' = [effects EXCEPT ![e] =
       @ \cup (IF lease[e] THEN {"error", "ack"} ELSE {"error"})]
  /\ UNCHANGED <<envVars, saveVars, stalls, storeVars, processingProgress,
                 processingComplete, response, err, pageCount, task, lastProgress,
                 attemptsMade, delay>>

\* variant: the catch block rethrows without writing processingError
CatchWithoutErrorWrite(e) ==
  /\ pc[e] = "catch"
  /\ pc' = [pc EXCEPT ![e] = "failed"]
  /\ MoveToFailed(e)
  /\ effects' = [effects EXCEPT ![e] =
       @ \cup (IF lease[e] THEN {"fail"} ELSE {})]
  /\ UNCHANGED <<envVars, saveVars, stalls, storeVars, dbVars, response, err,
                 pageCount, task, lastProgress>>

\* catch (error): write processingError, then throw error to BullMQ
Catch(e) ==
  /\ pc[e] = "catch"
  /\ processingError' = [processingError EXCEPT ![e[2]] = err[e]]
  /\ pc' = [pc EXCEPT ![e] = "failed"]
  /\ MoveToFailed(e)
  /\ effects' = [effects EXCEPT ![e] =
       @ \cup (IF lease[e] THEN {"error", "fail"} ELSE {"error"})]
  /\ UNCHANGED <<envVars, saveVars, stalls, storeVars, processingProgress,
                 processingComplete, response, err, pageCount, task, lastProgress>>

\* ------------------------------------------------------------ specifications
Save == \E d \in Docs, userFound \in BOOLEAN, queueOk \in BOOLEAN :
          SaveDocument(d, userFound, queueOk)

Queue == \E d \in Docs : (\E w \in Workers : Claim(w, d)) \/ Promote(d)

Processor ==
  \E e \in Execs :
    \/ \E ok \in BOOLEAN :
         \/ Fetch(e, ok)
         \/ WriteTempFile(e, ok)
         \/ Progress10(e, ok)
         \/ Extract(e, ok)
         \/ Progress15(e, ok)
         \/ Progress95(e, ok)
         \/ WriteAggregate(e, ok)
         \/ Progress100(e, ok)
    \/ Cleanup(e)
    \/ MarkComplete(e)
    \/ Catch(e)

PageTasks ==
  \E e \in Execs, p \in Pages :
    \/ StartPage(e, p)
    \/ FinishPage(e, p)
    \/ \E ok \in BOOLEAN :
         \/ SplitPage(e, p, ok)
         \/ RenderPage(e, p, ok)
         \/ UploadPage(e, p, ok)

Next == Save \/ Queue \/ Processor \/ PageTasks

Spec == Init /\ [][Next]_vars

\* the worker keeps polling the queue, delay timers elapse, and the event loop
\* runs every continuation whose awaited call has returned or failed
Fairness == WF_vars(Queue) /\ WF_vars(Processor) /\ WF_vars(PageTasks)

SpecLive == Init /\ [][Next]_vars /\ Fairness

\* one worker process and more uploaded documents than it runs at once
InitPool ==
  /\ InitCommon
  /\ running = {1}
  /\ pdfPages = [d \in Docs |-> PoolPages]

\* the pool under load: a fetch may fail (and the job is retried), the other calls succeed
PoolProcessor ==
  \E e \in Execs :
    \/ \E ok \in BOOLEAN : Fetch(e, ok)
    \/ WriteTempFile(e, TRUE)
    \/ Progress10(e, TRUE)
    \/ Extract(e, TRUE)
    \/ Progress15(e, TRUE)
    \/ Progress95(e, TRUE)
    \/ WriteAggregate(e, TRUE)
    \/ Progress100(e, TRUE)
    \/ Cleanup(e)
    \/ MarkComplete(e)
    \/ Catch(e)

PoolPageTasks ==
  \E e \in Execs, p \in Pages :
    \/ StartPage(e, p)
    \/ FinishPage(e, p)
    \/ SplitPage(e, p, TRUE)
    \/ RenderPage(e, p, TRUE)
    \/ UploadPage(e, p, TRUE)

PoolSave == \E d \in Docs : SaveDocument(d, TRUE, TRUE)

NextPool == PoolSave \/ Queue \/ PoolProcessor \/ PoolPageTasks

SpecPool == InitPool /\ [][NextPool]_vars

\* two worker processes on one queue, and locks that can expire
InitLease ==
  /\ InitCommon
  /\ running = Workers
  /\ \E n \in 0..LeasePages :
       pdfPages = [d \in Docs |-> IF d = 1 THEN n ELSE NoPdf]

Expiry == \E d \in Docs : LockExpired(d)

NextLease == Next \/ Expiry

SpecLease == InitLease /\ [][NextLease]_vars

\* two worker processes that may stop in the middle of a run; a lock expires
\* only when the run that held it is gone
Restarts == \E w \in Workers : Restart(w)

StalledJobs == \E d \in Docs : StalledCheck(d)

NextCrash == Next \/ Restarts \/ StalledJobs

SpecCrash == InitLease /\ [][NextCrash]_vars /\ Fairness /\ WF_vars(StalledJobs)

\* ================================================================== claims
Running(e) == pc[e] \notin Ended
PastFanOut == {"aggregate", "cleanup", "complete", "progress100", "done"}
ImageSet(f) == {f.images[i] : i \in 1..Len(f.images)}

\* C1: within one run of the processor the values written to
\* processingProgress never decrease, for every page count and every
\* completion order of the page tasks
C1_ProgressNeverDecreases ==
  [][\A e \in Execs : Running(e) => lastProgress'[e] >= lastProgress[e]]_vars

C3_PageFailureStaysLocal ==
  \A e \in Execs :
    /\ pc[e] \in PastFanOut =>
         \A p \in 1..pageCount[e] :
           /\ task[e][p] \in Settled
           /\ task[e][p] = "fulfilled" => storageRef(e[2], p) \in blobs
    /\ pc[e] \in {"catch", "failed"} =>
         err[e] \in {"fetch", "fs", "queue", "extract", "store", "unlink"}
    /\ pc[e] = "done" =>
         /\ {"aggregate", "complete"} \subseteq effects[e]
         /\ lastProgress[e] = 100

C3_Witness ==
  \E e \in Execs :
    /\ pc[e] = "done"
    /\ processingComplete[e[2]]
    /\ processingProgress[e[2]] = 100
    /\ \E p, q \in 1..pageCount[e] :
         /\ p < q
         /\ task[e][p] = "rejected"
         /\ task[e][q] = "fulfilled"
         /\ storageRef(e[2], q) \in blobs

\* C4: a job has at most one unexpired lease at any time, and only while it is
\* active: no claim by another worker succeeds while a lease is held
Holders(d) == {w \in Workers : lease[<<w, d>>]}

C5_AtMostTwoPageTasks ==
  \A e \in Execs :
    /\ Cardinality(InFlight(e)) <= Width
    /\ (Queued(e) # {} /\ pc[e] = "pages") =>
         \/ Cardinality(InFlight(e)) = Width
         \/ ENABLED StartPage(e, CHOOSE p \in Queued(e) : \A q \in Queued(e) : p <= q)

\* a rejected task freed its slot for a task beyond the cap
C5_Witness ==
  \E e \in Execs :
    /\ Cardinality(InFlight(e)) = Width
    /\ \E p \in Pages : task[e][p] = "rejected"
    /\ \E p \in InFlight(e) : p > Width

\* C6: a worker process runs at most 2 jobs at once and, each with its own
\* limiter, at most 4 page tasks in total
RECURSIVE SumInFlight(_, _)
SumInFlight(w, n) ==
  IF n = 0 THEN 0 ELSE Cardinality(InFlight(<<w, n>>)) + SumInFlight(w, n - 1)

C7_FetchFailureFailsTheJob ==
  \A e \in Execs :
    response[e] = "notok" =>
      /\ pc[e] \in {"catch", "failed"}
      /\ err[e] = "fetch"
      /\ pageCount[e] = 0
      /\ task[e] = NoTasks
      /\ effects[e] \cap {"aggregate", "complete", "ack"} = {}
      /\ pc[e] = "failed" =>
           /\ effects[e] = {"error", "fail"}
           /\ processingError[e[2]] = "fetch"
           /\ attemptsMade[e[2]] >= 1
           /\ jobState[e[2]] \in {"delayed", "wait", "failed"}

C7_Witness ==
  \E e \in Execs :
    /\ response[e] = "notok"
    /\ pc[e] = "failed"
    /\ processingError[e[2]] = "fetch"
    /\ ~processingComplete[e[2]]
    /\ jsonFile[e[2]] = NoFile

\* C8: a job whose attempts fail goes back to the queue with a delay of
\* 5000 * 2^(k-1) ms after its k-th failure while k < 3, each delay longer
\* than the one before; after the 3rd failure it is in the failed set and is
\* never run again
C8_BackoffState ==
  \A d \in Docs :
    /\ attemptsMade[d] <= Attempts
    /\ jobState[d] = "delayed" =>
         /\ attemptsMade[d] \in 1..(Attempts - 1)
         /\ delay[d] = BackoffDelay * Pow2(attemptsMade[d] - 1)
    /\ jobState[d] = "failed" =>
         /\ attemptsMade[d] = Attempts
         /\ \A w \in Workers : ~Running(<<w, d>>)
    /\ jobState[d] \in {"wait", "active", "delayed"} => attemptsMade[d] < Attempts

C8_BackoffStep ==
  \A d \in Docs :
    /\ (jobState[d] # "delayed" /\ jobState'[d] = "delayed") =>
         /\ delay'[d] > delay[d]
         /\ attemptsMade'[d] = attemptsMade[d] + 1
    /\ (jobState[d] = "active" /\ attemptsMade'[d] # attemptsMade[d]) =>
         jobState'[d] = IF attemptsMade'[d] < Attempts THEN "delayed" ELSE "failed"
    /\ jobState[d] = "failed" =>
         /\ jobState'[d] = "failed"
         /\ \A w \in Workers : pc'[<<w, d>>] = pc[<<w, d>>]

C8_RetryWithBackoffThenDead == []C8_BackoffState /\ [][C8_BackoffStep]_vars

C8_Witness ==
  \E d \in Docs :
    /\ jobState[d] = "failed"
    /\ attemptsMade[d] = Attempts
    /\ delay[d] = 2 * BackoffDelay
    /\ processingError[d] = "fetch"
    /\ \A w \in Workers : response[<<w, d>>] # "ok"

\* C9: a run that ends in Failed has written the error to the document, has
\* reported the failure to the queue and has at no point written complete = true
C9_FailedRunNeverSetComplete ==
  \A e \in Execs :
    pc[e] = "failed" =>
      /\ "error" \in effects[e]
      /\ processingError[e[2]] = err[e]
      /\ "fail" \in effects[e]
      /\ "complete" \notin effects[e]

\* C10: complete = true and progress = 100 are written only after the
\* aggregate, and the job is acknowledged only after they are written
C10_FinalizationOrder ==
  /\ \A e \in Execs :
       /\ "complete" \in effects[e] =>
            /\ "aggregate" \in effects[e]
            /\ jsonFile[e[2]] # NoFile
       /\ "ack" \in effects[e] =>
            /\ "complete" \in effects[e]
            /\ lastProgress[e] = 100
       /\ pc[e] = "done" => "complete" \in effects[e]
  /\ \A d \in Docs :
       /\ processingComplete[d] => jsonFile[d] # NoFile
       /\ jobState[d] = "completed" => processingComplete[d]

C10_Witness ==
  \E e \in Execs :
    /\ pc[e] = "done"
    /\ effects[e] = {"aggregate", "complete", "ack"}
    /\ jobState[e[2]] = "completed"
    /\ processingProgress[e[2]] = 100

\* C11: when the write of the aggregate fails, the run is a job-level failure:
\* it sets neither complete nor progress 100, it writes the error to the
\* document, and it fails the job to the queue, which retries the whole job
\* while attempts remain
C11_AggregateWriteFailureFailsTheJob ==
  \A e \in Execs :
    err[e] = "store" =>
      /\ pc[e] \in {"catch", "failed"}
      /\ FanOutDone(e)
      /\ effects[e] \cap {"aggregate", "complete", "ack"} = {}
      /\ lastProgress[e] < 100
      /\ pc[e] = "failed" =>
           /\ effects[e] = {"error", "fail"}
           /\ processingError[e[2]] = "store"
           /\ attemptsMade[e[2]] >= 1
           /\ jobState[e[2]] =
                IF attemptsMade[e[2]] < Attempts
                  THEN (IF jobState[e[2]] = "wait" THEN "wait" ELSE "delayed")
                  ELSE "failed"

C11_Witness ==
  \E e \in Execs :
    /\ err[e] = "store"
    /\ pc[e] = "failed"
    /\ pageCount[e] >= 1
    /\ \A p \in 1..pageCount[e] : task[e][p] = "fulfilled"
    /\ jobState[e[2]] = "delayed"
    /\ processingError[e[2]] = "store"
    /\ ~processingComplete[e[2]]
    /\ jsonFile[e[2]] = NoFile

\* C12: a document of 0 pages is not an error: its run starts no page task,
\* the fan-out is settled at once so the run goes on to the final steps, the
\* aggregate it writes has pageCount 0 and no page entry, and a run that ends
\* normally has set complete and progress 100 and has written no error; the
\* only errors such a run can raise come from its queue and file calls
ZeroPageRun(e) ==
  /\ pdfPages[e[2]] = 0
  /\ pc[e] \in {"pages"} \cup PastFanOut
C12_ZeroPagesCompletes ==
  \A e \in Execs :
    ZeroPageRun(e) =>
      /\ pageCount[e] = 0
      /\ task[e] = NoTasks
      /\ FanOutDone(e)
      /\ err[e] = "none"
      /\ "error" \notin effects[e]
      /\ "aggregate" \in effects[e] =>
           jsonFile[e[2]] = [pageCount |-> 0, images |-> <<>>]
      /\ pc[e] \in {"cleanup", "complete", "progress100", "done"} =>
           "aggregate" \in effects[e]
      /\ pc[e] = "done" =>
           /\ processingComplete[e[2]]
           /\ processingProgress[e[2]] = 100
           /\ jobState[e[2]] = "completed"

\* a first run of a 0-page document has ended normally: no error on the record
C12_Witness ==
  \E e \in Execs :
    /\ ZeroPageRun(e)
    /\ pc[e] = "done"
    /\ attemptsMade[e[2]] = 0
    /\ processingError[e[2]] = "null"
    /\ jsonFile[e[2]] = [pageCount |-> 0, images |-> <<>>]

\* C13: a job whose extraction failed because the document is malformed is
\* not retried: once that failure is on the record the job is in the failed
\* set, never waiting, delayed or active again, whatever attempts remain
C13_MalformedIsNotRetried ==
  \A d \in Docs :
    (pdfPages[d] = Malformed /\ processingError[d] = "extract") =>
      /\ jobState[d] = "failed"
      /\ \A w \in Workers : pc[<<w, d>>] = "failed"

\* C14: a failed upload is tried again inside the page task, so the step that
\* follows a rendered page's first upload never marks the page as failed
C14_FirstUploadFailureIsRetried ==
  [][\A e \in Execs, p \in Pages :
       task[e][p] = "rendered" => task'[e][p] # "rejected"]_vars

\* C15: under fairness of the queue and the worker every enqueued job ends in
\* an outcome the document record shows: the job is completed and the record
\* has complete = true, or the job is in the failed set and the record has a
\* non-null error; no job is in either final set without its record saying so
Terminal(d) ==
  \/ jobState[d] = "completed" /\ processingComplete[d]
  \/ jobState[d] = "failed" /\ processingError[d] # "null"
Orphaned(d) ==
  /\ jobState[d] = "active"
  /\ \E w \in Workers : lease[<<w, d>>] /\ pc[<<w, d>>] \in Ended
C16_StoppedRunIsRecovered ==
  /\ [][\A d \in Docs :
          (Orphaned(d) /\ jobState'[d] # "active") => jobState'[d] = "wait"]_vars
  /\ \A d \in Docs : Orphaned(d) ~> Terminal(d)

\* C17: every write of processingProgress, processingComplete or
\* processingError is made by a run that holds the lock of its job at that
\* moment; a run whose lock has expired writes nothing more to the record
WritesRecord(e) ==
  \/ lastProgress'[e] # lastProgress[e]
  \/ "complete" \in effects'[e] \ effects[e]
  \/ "error" \in effects'[e] \ effects[e]
C17_OnlyTheLeaseHolderWrites ==
  [][\A e \in Execs : (Running(e) /\ WritesRecord(e)) => lease[e]]_vars

\* C18: a page has an entry with an image URL in the aggregate of a run
\* exactly when its render and its upload succeeded in that run: a page task
\* is fulfilled only from the state in which its image is uploaded, and a
\* page task whose image is uploaded never ends rejected
C18_UrlIffRenderedAndUploaded ==
  /\ [][\A e \in Execs, p \in Pages :
          (task'[e][p] = "fulfilled" /\ task[e][p] # "fulfilled") =>
            (task[e][p] = "uploaded" /\ storageRef(e[2], p) \in blobs)]_vars
  /\ [][\A e \in Execs, p \in Pages :
          (pc[e] = "pages" /\ task[e][p] = "uploaded") =>
            task'[e][p] \in {"uploaded", "fulfilled"}]_vars

\* C19: whatever the order in which the page tasks completed, the page entries
\* of a written aggregate are in strictly increasing pageNumber order, so no
\* page number occurs twice
C19_AggregateSortedByPageNumber ==
  \A d \in Docs :
    jsonFile[d] # NoFile =>
      LET images == jsonFile[d].images IN
      /\ \A i, j \in 1..Len(images) : i < j => images[i] < images[j]
      /\ Cardinality(ImageSet(jsonFile[d])) = Len(images)

\* the aggregate has several entries and the last page task to complete was page 1
C19_Witness ==
  \E e \in Execs :
    /\ pc[e] = "cleanup"
    /\ "aggregate" \in effects[e]
    /\ pageCount[e] >= 2
    /\ Len(jsonFile[e[2]].images) = pageCount[e]
    /\ lastProgress[e] = PageProgress(pageCount[e], 1)

\* C20: the pageCount field of the aggregate a run writes is the page count
\* the extractor returned in that run, which is the page count of the
\* document, however many of its page tasks were rejected
C20_PageCountIsExtractorCount ==
  \A e \in Execs :
    "aggregate" \in effects[e] =>
      /\ jsonFile[e[2]].pageCount = pageCount[e]
      /\ pageCount[e] = pdfPages[e[2]]
      /\ jsonFile[e[2]].pageCount >= Len(jsonFile[e[2]].images)

\* every page task of a document of several pages was rejected, and the
\* aggregate still records the page count
C20_Witness ==
  \E e \in Execs :
    /\ "aggregate" \in effects[e]
    /\ pageCount[e] >= 2
    /\ \A p \in 1..pageCount[e] : task[e][p] = "rejected"
    /\ jsonFile[e[2]] = [pageCount |-> pageCount[e], images |-> <<>>]

\* C21: running a job again is idempotent on what it stores: after any number
\* of retries and duplicate deliveries the store holds, for each document, at
\* most one object per page number of the document, each under the key of its
\* page, and the aggregate of the document is the one file of that document
DocBlobs(d) == {b \in blobs : b[1] = d}
C21_ReExecutionIsIdempotent ==
  \A d \in Docs :
    /\ DocBlobs(d) \subseteq {storageRef(d, p) : p \in Pages}
    /\ \A b \in DocBlobs(d) : pdfPages[d] >= 1 /\ b[2] \in 1..pdfPages[d]
    /\ Cardinality(DocBlobs(d)) <=
         (IF pdfPages[d] >= 1 THEN pdfPages[d] ELSE 0)
    /\ jsonFile[d] # NoFile => jsonFile[d].pageCount = pdfPages[d]

\* a retry and a duplicate delivery of one job have both uploaded page 1, and
\* the store holds one object
C21_Witness ==
  \E d \in Docs : \E w, v \in Workers :
    /\ w # v
    /\ attemptsMade[d] >= 1
    /\ stalls[d] >= 1
    /\ task[<<w, d>>][1] = "uploaded"
    /\ task[<<v, d>>][1] = "uploaded"
    /\ pc[<<w, d>>] = "pages" /\ pc[<<v, d>>] = "pages"
    /\ blobs = {storageRef(d, 1)}

\* C22: saveDocument returns success only when the document row is inserted
\* and its job is in the queue; a job exists, and a worker runs it, only after
\* that enqueue; and saveDocument of a known user fails only when the queue add
\* failed, in which case no job exists
Enqueued(d) == jobState[d] # "none"
C22_SuccessMeansInsertedAndEnqueued ==
  /\ [](\A d \in Docs :
          /\ saveResult[d] = "ok" => (d \in documents /\ Enqueued(d))
          /\ Enqueued(d) => (d \in documents /\ saveResult[d] = "ok")
          /\ saveResult[d] = "failed" => ~Enqueued(d)
          /\ ~Enqueued(d) =>
               /\ attemptsMade[d] = 0
               /\ \A w \in Workers : pc[<<w, d>>] = "idle" /\ ~lease[<<w, d>>])
  /\ [][\A e \in Execs :
          (pc[e] \in Ended /\ pc'[e] = "fetch") =>
            (jobState[e[2]] = "wait" /\ saveResult[e[2]] = "ok")]_vars

\* the saved document's job was enqueued and a worker has taken it
C22_Witness ==
  \E e \in Execs :
    /\ saveResult[e[2]] = "ok"
    /\ e[2] \in documents
    /\ jobState[e[2]] = "active"
    /\ pc[e] = "fetch"
    /\ attemptsMade[e[2]] = 0

\* C23: when the k-th page task of a run over N pages settles, fulfilled or
\* rejected, the progress on the record is min(95, 15 + round(80 * k / N)),
\* k being the number of page tasks settled so far
ClaimedProgress(n, k) ==
  Min(PageCap, ExtractShare + (2 * PageShare * k + n) \div (2 * n))
SettledCount(t) == Cardinality({p \in Pages : t[p] \in Settled})
C23_ProgressCountsSettledPages ==
  [][\A e \in Execs :
       (pc[e] = "pages" /\ SettledCount(task'[e]) > SettledCount(task[e])) =>
         processingProgress'[e[2]] =
           ClaimedProgress(pageCount[e], SettledCount(task'[e]))]_vars

\* C24: a run, once claimed, ends in Done or Failed: whatever page tasks
\* fulfil or reject, a run in its fan-out never waits with no task able to
\* move, all its page tasks get settled, and the processor then returns or
\* throws
CanMove(e) ==
  \/ InFlight(e) # {}
  \/ Queued(e) # {} /\ SlotFree(e)
C24_EveryRunTerminates ==
  /\ [](\A e \in Execs : (pc[e] = "pages" /\ ~FanOutDone(e)) => CanMove(e))
  /\ [][\A e \in Execs :
          (pc[e] = "pages" /\ pc'[e] # "pages") => FanOutDone(e)]_vars
  /\ \A e \in Execs : Running(e) ~> (pc[e] \in {"done", "failed"})

\* the first two page tasks rejected, the third ran after them, the run returned
C24_Witness ==
  \E e \in Execs :
    /\ pc[e] = "done"
    /\ pageCount[e] = 3
    /\ task[e][1] = "rejected"
    /\ task[e][2] = "rejected"
    /\ task[e][3] = "fulfilled"

\* C25: across all attempts of a job, whenever the record has complete = true
\* its error is null: a later attempt that completes does not leave the error
\* of an earlier attempt, and nothing writes an error after complete = true
C25_CompleteHasNoError ==
  \A d \in Docs : processingComplete[d] => processingError[d] = "null"

\* C26: every document row that saveDocument inserted has a job in the queue,
\* also when the queue add failed and saveDocument returned failure
C26_InsertedMeansEnqueued ==
  \A d \in documents : Enqueued(d)

\* C27: every value written to processingProgress is an integer in 0..100; the
\* writes of the page tasks are in 15..95; 100 is written only by the update
\* that sets complete = true, so a run has written 100 exactly when it has
\* written complete, and on the record of a job in its first delivery
\* progress is 100 exactly when complete is true
C27_ProgressRange ==
  /\ [](\A d \in Docs : processingProgress[d] \in 0..100)
  /\ [](\A e \in Execs :
          /\ lastProgress[e] \in {0, 100} \cup (ExtractShare..PageCap)
          /\ lastProgress[e] = 100 <=> "complete" \in effects[e]
          /\ (attemptsMade[e[2]] = 0 /\ stalls[e[2]] = 0) =>
               (processingProgress[e[2]] = 100 <=> processingComplete[e[2]]))
  /\ [][\A e \in Execs :
          (pc[e] = "pages" /\ lastProgress'[e] # lastProgress[e]) =>
            /\ lastProgress'[e] \in ExtractShare..PageCap
            /\ processingProgress'[e[2]] = lastProgress'[e]]_vars
  /\ [][\A d \in Docs :
          (processingProgress'[d] = 100 /\ processingProgress[d] # 100) =>
            processingComplete'[d]]_vars

\* page 1 of 3 has written the rounded value 42 and the job is not complete
C27_Witness ==
  \E e \in Execs :
    /\ pc[e] = "pages"
    /\ pageCount[e] = 3
    /\ lastProgress[e] = 42
    /\ processingProgress[e[2]] = 42
    /\ ~processingComplete[e[2]]

\* C28: when a run has ended, in Done or in Failed, no temporary file of its
\* document is left: neither the downloaded PDF nor any single-page PDF, also
\* for pages that failed and for runs that failed after the download
TempFilesOf(d) ==
  {f \in tempFiles : f = tempFilePath(d) \/ \E p \in Pages : f = singlePagePdfPath(d, p)}
C28_NoTempFilesAfterTheRun ==
  \A e \in Execs : pc[e] \in {"done", "failed"} => TempFilesOf(e[2]) = {}

\* C29: no two running tasks use the same temporary file path: the page tasks
\* of one run have a path each, and two runs in progress at the same time,
\* also two overlapping runs of one document after a lock expiry, never have
\* a temporary file in use in common
InUse(e) ==
  (IF pc[e] \in {"progress10", "extract", "progress15", "pages", "aggregate", "cleanup"}
     THEN {tempFilePath(e[2])} ELSE {})
  \cup {singlePagePdfPath(e[2], p) : p \in
         {q \in Pages : pc[e] = "pages" /\ task[e][q] \in {"filed", "rendered", "uploaded"}}}
C29_NoSharedTempPath ==
  /\ \A e \in Execs : \A p, q \in Pages :
       p # q => singlePagePdfPath(e[2], p) # singlePagePdfPath(e[2], q)
  /\ \A e1, e2 \in Execs : e1 # e2 => InUse(e1) \cap InUse(e2) = {}

\* C30: when no user matches the clerk id, saveDocument returns "User not
\* found" and changes nothing: no document row is inserted, no job is added,
\* and nothing else of the state moves in that call or because of it later
C30_UserNotFoundChangesNothing ==
  /\ [](\A d \in Docs :
          saveResult[d] = "user_not_found" =>
            /\ d \notin documents
            /\ ~Enqueued(d)
            /\ processingProgress[d] = 0
            /\ ~processingComplete[d]
            /\ processingError[d] = "null"
            /\ \A w \in Workers : pc[<<w, d>>] = "idle")
  /\ [][\A d \in Docs :
          (saveResult[d] = "none" /\ saveResult'[d] = "user_not_found") =>
            UNCHANGED <<envVars, dbVars, documents, queueVars, pc, runVars,
                        storeVars>>]_vars

\* the call for an unknown user has returned and the tables are empty
C30_Witness ==
  \E d \in Docs :
    /\ saveResult[d] = "user_not_found"
    /\ pdfPages[d] # NoPdf
    /\ documents = {}
    /\ \A c \in Docs : jobState[c] = "none"

====
